---- MODULE Spec2Model ----
(***************************************************************************)
(* A model of the near-Earth-object database: the record types of          *)
(* models.py, the loader rows of extract.py, the NEODatabase of            *)
(* database.py (construction, the two lookups, the query generator) and    *)
(* write_to_csv of write.py.                                               *)
(*                                                                         *)
(* Objects live in two heaps, `neos` and `cas`, and are referred to by     *)
(* their position in the heap (object identity); a Python dict is an       *)
(* insertion-ordered sequence of entries [k, v].                           *)
(***************************************************************************)
EXTENDS Integers, Sequences, FiniteSets, TLC

VARIABLES
    neos,                \* the NearEarthObject objects handed to NEODatabase
    cas,                 \* the CloseApproach objects handed to NEODatabase
    neos_by_designation, \* self.neos_by_designation: dict designation -> NEO
    neos_by_name,        \* self.neos_by_name: dict name -> NEO
    approaches,          \* self.approaches: dict designation -> list of approaches
    phase,               \* "loaded" before NEODatabase(...), "built" after
    ret,                 \* the last lookup call: operation, argument, value returned
    gen,                 \* the generator object of the last query(...) call
    csv                  \* the file written by the last write_to_csv call

vars == <<neos, cas, neos_by_designation, neos_by_name, approaches, phase, ret, gen, csv>>

dbvars == <<neos, cas, neos_by_designation, neos_by_name, approaches>>

-----------------------------------------------------------------------------
(* Bounds of the model.                                                    *)

MaxNeos == 2
MaxApproaches == 3
MaxQueryApproaches == 2
MaxFilters == 2

-----------------------------------------------------------------------------
(* Python values: None, str, float (with nan) and bool, tagged by type.    *)

PyNone == [t |-> "NoneType", s |-> "", n |-> 0]

PyStr(str) == [t |-> "str", s |-> str, n |-> 0]

PyFloat(i) == [t |-> "float", s |-> "", n |-> i]

PyNaN == [t |-> "float", s |-> "nan", n |-> 0]

PyInt(i) == [t |-> "int", s |-> "", n |-> i]

PyBool(b) == [t |-> "bool", s |-> "", n |-> IF b THEN 1 ELSE 0]

\* math.isnan(x)
isnan(x) == x.t = "float" /\ x.s = "nan"

IsNumber(x) == x.t \in {"float", "int", "bool"}

\* x == y: numbers compare by value across int, float and bool, nan equals
\* nothing (itself included); a str equals only an equal str; None only None.
PyEq(x, y) ==
    IF IsNumber(x) /\ IsNumber(y)
    THEN ~isnan(x) /\ ~isnan(y) /\ x.n = y.n
    ELSE x.t = y.t /\ x.s = y.s

\* x in (t1, t2, ...): identity or equality with some element of the tuple.
\* The tuples of this program are literals, never identical to x unless equal
\* (None, True and the small ints are singletons that also compare equal).
PyIn(x, tuple) == \E i \in 1..Len(tuple) : PyEq(x, tuple[i])

\* The reference held by CloseApproach.neo before linking (None).
NoNeo == 0

-----------------------------------------------------------------------------
(* Python dicts, insertion-ordered.                                        *)

DictHas(d, k) == \E i \in 1..Len(d) : d[i].k = k

DictGet(d, k) == d[CHOOSE i \in 1..Len(d) : d[i].k = k].v

\* d[k] = v: a new key is appended, an existing key keeps its position.
DictSet(d, k, v) ==
    IF DictHas(d, k)
    THEN [i \in 1..Len(d) |-> IF d[i].k = k THEN [k |-> k, v |-> v] ELSE d[i]]
    ELSE Append(d, [k |-> k, v |-> v])

-----------------------------------------------------------------------------
(* models.py: the record types.                                            *)

\* float(text) on the diameter column.
ParseFloat(text) ==
    CASE text = "1" -> PyFloat(1)
      [] text = "2" -> PyFloat(2)
      [] OTHER -> PyNaN

\* NearEarthObject(**info); info is the keyword bag, a function on its keys.
NearEarthObject(info) ==
    [designation |-> IF "designation" \notin DOMAIN info THEN ""
                     ELSE info.designation,
     name        |-> IF "name" \notin DOMAIN info \/ info.name = "" THEN PyNone
                     ELSE PyStr(info.name),
     diameter    |-> IF "diameter" \notin DOMAIN info \/ info.diameter = "" THEN PyNaN
                     ELSE ParseFloat(info.diameter),
     hazardous   |-> IF "hazardous" \notin DOMAIN info THEN FALSE
                     ELSE info.hazardous,
     approaches  |-> <<>>]

\* CloseApproach(**info), with the time already a datetime [date, hm].
CloseApproach(info) ==
    [designation |-> info.designation,
     time        |-> info.time,
     distance    |-> info.distance,
     velocity    |-> info.velocity,
     neo         |-> NoNeo]

-----------------------------------------------------------------------------
(* extract.py: one CSV row to a NearEarthObject.                           *)

load_neo(row) ==
    NearEarthObject([designation |-> row.pdes,
                     name        |-> row.name,
                     diameter    |-> row.diameter,
                     hazardous   |-> (row.pha = "Y")])

load_approach(d) ==
    CloseApproach([designation |-> d.des, time |-> d.cd,
                   distance |-> d.dist, velocity |-> d.v_rel])

-----------------------------------------------------------------------------
(* database.py: NEODatabase.__init__                                       *)

\* A variant of IndexByDesignation in which the first NEO of a designation
\* stays in the index (setdefault instead of assignment).
RECURSIVE IndexByDesignationFirstWins(_, _, _)
IndexByDesignationFirstWins(ns, i, d) ==
    IF i > Len(ns) THEN d
    ELSE IndexByDesignationFirstWins(ns, i + 1,
            IF DictHas(d, ns[i].designation) THEN d
            ELSE DictSet(d, ns[i].designation, i))

RECURSIVE IndexByDesignation(_, _, _)
IndexByDesignation(ns, i, d) ==
    IF i > Len(ns) THEN d
    ELSE IndexByDesignation(ns, i + 1, DictSet(d, ns[i].designation, i))

RECURSIVE IndexByName(_, _, _)
IndexByName(ns, i, d) ==
    IF i > Len(ns) THEN d
    ELSE IndexByName(ns, i + 1, DictSet(d, ns[i].name, i))

\* A variant of GroupApproaches that puts a new approach at the front of its
\* group (insert(0, a) instead of append(a)).
RECURSIVE GroupApproachesPrepend(_, _, _)
GroupApproachesPrepend(as, i, d) ==
    IF i > Len(as) THEN d
    ELSE GroupApproachesPrepend(as, i + 1,
            IF ~DictHas(d, as[i].designation)
            THEN DictSet(d, as[i].designation, <<i>>)
            ELSE DictSet(d, as[i].designation,
                         <<i>> \o DictGet(d, as[i].designation)))

\* A variant of GroupApproaches whose else branch starts the group again
\* (... = [a] instead of .append(a)).
RECURSIVE GroupApproachesOverwrite(_, _, _)
GroupApproachesOverwrite(as, i, d) ==
    IF i > Len(as) THEN d
    ELSE GroupApproachesOverwrite(as, i + 1, DictSet(d, as[i].designation, <<i>>))

RECURSIVE GroupApproaches(_, _, _)
GroupApproaches(as, i, d) ==
    IF i > Len(as) THEN d
    ELSE GroupApproaches(as, i + 1,
            IF ~DictHas(d, as[i].designation)
            THEN DictSet(d, as[i].designation, <<i>>)
            ELSE DictSet(d, as[i].designation,
                         Append(DictGet(d, as[i].designation), i)))

\* A variant of SetNeo that sets the back-reference of every approach, not
\* only of those in the group.
SetNeoEvery(as, group, n) ==
    [j \in 1..Len(as) |-> [as[j] EXCEPT !.neo = n]]

\* for a in self.approaches[n.designation]: a.neo = n
SetNeo(as, group, n) ==
    [j \in 1..Len(as) |->
        IF \E g \in 1..Len(group) : group[g] = j
        THEN [as[j] EXCEPT !.neo = n] ELSE as[j]]

\* for n in self.neos_by_designation.values(): ...
\* h is the pair of heaps [neos, cas]; e is the position in the dict.
RECURSIVE Link(_, _, _, _)
Link(h, byDes, groups, e) ==
    IF e > Len(byDes) THEN h
    ELSE LET n == byDes[e].v
             des == h.neos[n].designation
         IN  IF DictHas(groups, des)
             THEN Link([neos |-> [h.neos EXCEPT ![n].approaches = DictGet(groups, des)],
                        cas  |-> SetNeo(h.cas, DictGet(groups, des), n)],
                       byDes, groups, e + 1)
             ELSE Link(h, byDes, groups, e + 1)

\* The whole constructor, as a function of the objects handed to it.
NEODatabase(ns, as) ==
    LET byDes  == IndexByDesignation(ns, 1, <<>>)
        byName == IndexByName(ns, 1, <<>>)
        groups == GroupApproaches(as, 1, <<>>)
        h      == Link([neos |-> ns, cas |-> as], byDes, groups, 1)
    IN  [neos |-> h.neos, cas |-> h.cas,
         neos_by_designation |-> byDes,
         neos_by_name |-> byName,
         approaches |-> groups]

\* NEODatabase.get_neo_by_designation
get_neo_by_designation(byDes, designation) ==
    IF ~DictHas(byDes, designation) THEN NoNeo
    ELSE DictGet(byDes, designation)

\* NEODatabase.get_neo_by_name
get_neo_by_name(byName, name) ==
    IF ~DictHas(byName, name) THEN NoNeo
    ELSE DictGet(byName, name)

-----------------------------------------------------------------------------
(* database.py: NEODatabase.query, a generator.                            *)

\* One pass of the if/elif chain for filter (k, v) on approach a:
\* "invalid" if a branch sets invalid = True, "raise" if a.neo is None where
\* the chain reads a.neo.diameter or a.neo.hazardous, "valid" otherwise.
\* The value of a hazardous filter is a bool, carried as 1 (True) or 0 (False).
FilterStep(k, v, a, ns) ==
    IF k = "date" /\ a.time.date # v THEN "invalid"
    ELSE IF k = "start_date" /\ a.time.date < v THEN "invalid"
    ELSE IF k = "end_date" /\ a.time.date > v THEN "invalid"
    ELSE IF k = "distance_min" /\ a.distance < v THEN "invalid"
    ELSE IF k = "distance_max" /\ a.distance > v THEN "invalid"
    ELSE IF k = "velocity_min" /\ a.velocity < v THEN "invalid"
    ELSE IF k = "velocity_max" /\ a.velocity > v THEN "invalid"
    ELSE IF k \in {"diameter_min", "diameter_max"}
    THEN IF a.neo = NoNeo THEN "raise"
         ELSE IF isnan(ns[a.neo].diameter) THEN "invalid"
         ELSE IF k = "diameter_min" /\ ns[a.neo].diameter.n < v THEN "invalid"
         ELSE IF k = "diameter_max" /\ ns[a.neo].diameter.n > v THEN "invalid"
         ELSE "valid"
    ELSE IF k = "hazardous"
    THEN IF a.neo = NoNeo THEN "raise"
         ELSE IF ns[a.neo].hazardous # (v = 1) THEN "invalid"
         ELSE "valid"
    ELSE "valid"

\* for k, v in filters.items(): ... if invalid: break
RECURSIVE FilterLoop(_, _, _, _)
FilterLoop(filters, j, a, ns) ==
    IF j > Len(filters) THEN "valid"
    ELSE LET r == FilterStep(filters[j].k, filters[j].v, a, ns)
         IN  IF r = "valid" THEN FilterLoop(filters, j + 1, a, ns) ELSE r

\* The body of the inner loop for one approach.
Evaluate(filters, a, ns) ==
    IF Len(filters) # 0 THEN FilterLoop(filters, 1, a, ns) ELSE "valid"

\* for ls in self.approaches.values(): for a in ls: the order of iteration.
RECURSIVE Stored(_, _)
Stored(groups, e) ==
    IF e > Len(groups) THEN <<>>
    ELSE groups[e].v \o Stored(groups, e + 1)

\* next(generator): run from the approach after position pos to the next
\* yield, to the end of the loops (StopIteration) or to an exception.
RECURSIVE Resume(_, _, _, _, _)
Resume(g, ns, as, groups, p) ==
    LET stored == Stored(groups, 1)
    IN  IF p > Len(stored) THEN [g EXCEPT !.state = "done", !.pos = Len(stored)]
        ELSE LET r == Evaluate(g.filters, as[stored[p]], ns)
             IN  IF r = "raise" THEN [g EXCEPT !.state = "raised", !.pos = p]
                 ELSE IF r = "valid"
                 THEN [g EXCEPT !.pos = p, !.out = Append(g.out, stored[p])]
                 ELSE Resume(g, ns, as, groups, p + 1)

\* query(filters): the generator object, no code of the body run yet.
query(filters) == [state |-> "suspended", filters |-> filters, pos |-> 0, out |-> <<>>]

NoGenerator == [state |-> "none", filters |-> <<>>, pos |-> 0, out |-> <<>>]

\* list(generator): the generator run until it stops or raises.
RECURSIVE Drain(_, _, _, _)
Drain(g, ns, as, groups) ==
    IF g.state # "suspended" THEN g
    ELSE Drain(Resume(g, ns, as, groups, g.pos + 1), ns, as, groups)

-----------------------------------------------------------------------------
(* write.py: write_to_csv                                                  *)

fieldnames == <<"datetime_utc", "distance_au", "velocity_km_s", "designation",
                "name", "diameter_km", "potentially_hazardous">>

\* str(datetime): date and time of day with seconds.
DatetimeStr(time) == "day" \o ToString(time.date) \o " 00:0" \o ToString(time.hm) \o ":00"

\* What csv.writer writes for one field: a str as it is, None as the empty
\* string, any other value as str(value).
CsvField(x) ==
    CASE x.t = "str" -> x.s
      [] x.t = "NoneType" -> ""
      [] x.t = "bool" -> IF x.n = 1 THEN "True" ELSE "False"
      [] x.t = "float" -> IF isnan(x) THEN "nan" ELSE ToString(x.n) \o ".0"
      [] OTHER -> ToString(x.n)

\* The row of one approach r whose neo is the NEO object n.
CsvRow(r, n) ==
    LET name == IF PyIn(n.name, <<PyStr(""), PyNone>>) THEN PyStr("") ELSE n.name
        diameter == IF PyIn(n.diameter, <<PyStr(""), PyStr("nan")>>) THEN PyStr("")
                    ELSE n.diameter
        hazardous == IF PyIn(PyBool(n.hazardous),
                             <<PyInt(1), PyStr("Y"), PyStr("True"), PyBool(TRUE)>>)
                     THEN PyBool(TRUE) ELSE PyBool(FALSE)
    IN  <<DatetimeStr(r.time), CsvField(PyFloat(r.distance)), CsvField(PyFloat(r.velocity)),
          r.designation, CsvField(name), CsvField(diameter), CsvField(hazardous)>>

\* for r in results: ... writer.writerow(row), results being generator g.
\* f is the file so far: [state, rows, src], src the approach of each row.
RECURSIVE WriteRows(_, _, _, _, _)
WriteRows(f, g, ns, as, groups) ==
    LET g1 == Resume(g, ns, as, groups, g.pos + 1)
    IN  IF g1.state = "done" THEN [file |-> [f EXCEPT !.state = "written"], gen |-> g1]
        ELSE IF g1.state = "raised" THEN [file |-> [f EXCEPT !.state = "raised"], gen |-> g1]
        ELSE LET r == as[g1.out[Len(g1.out)]]
             IN  IF r.neo = NoNeo
                 THEN [file |-> [f EXCEPT !.state = "raised"], gen |-> g1]
                 ELSE WriteRows([f EXCEPT !.rows = Append(@, CsvRow(r, ns[r.neo])),
                                          !.src = Append(@, g1.out[Len(g1.out)])],
                                g1, ns, as, groups)

write_to_csv(g, ns, as, groups) ==
    WriteRows([state |-> "open", rows |-> <<fieldnames>>, src |-> <<0>>], g, ns, as, groups)

NoFile == [state |-> "none", rows |-> <<>>, src |-> <<>>]

NoCall == [op |-> "none", arg |-> PyNone, val |-> NoNeo]

-----------------------------------------------------------------------------
(* The inputs: rows of the NEO file, entries of the approach file, lookup  *)
(* arguments and filter collections.                                       *)

SeqsUpTo(S, n) == UNION {[1..m -> S] : m \in 0..n}

NeoRows(Des, Names, Diameters, Phas) ==
    [pdes : Des, name : Names, diameter : Diameters, pha : Phas]

CadEntries(Des, Dates, Dists, Vels) ==
    [des : Des, cd : [date : Dates, hm : {0}], dist : Dists, v_rel : Vels]

\* load_neos / load_approaches: one object per row, in file order.
load_neos(rows) == [i \in 1..Len(rows) |-> load_neo(rows[i])]

load_approaches(data) == [i \in 1..Len(data) |-> load_approach(data[i])]

FilterNames ==
    {"date", "start_date", "end_date", "distance_min", "distance_max",
     "velocity_min", "velocity_max", "diameter_min", "diameter_max", "hazardous"}

\* The values a filter of each name is given; "limit" is a name query does
\* not know.
FilterValues(k) ==
    CASE k \in {"start_date", "distance_min", "velocity_min", "diameter_min"} -> {2}
      [] k \in {"end_date", "distance_max", "velocity_max", "diameter_max", "date"} -> {1}
      [] k = "hazardous" -> {0, 1}
      [] OTHER -> {1}

FilterItems == UNION {{[k |-> k, v |-> v] : v \in FilterValues(k)} :
                        k \in FilterNames \cup {"limit"}}

\* dicts of at most n filters: sequences of items with distinct names
FilterDicts(n) ==
    {f \in SeqsUpTo(FilterItems, n) :
        \A i, j \in 1..Len(f) : i # j => f[i].k # f[j].k}

InitWith(rows, data) ==
    /\ neos \in {load_neos(r) : r \in rows}
    /\ cas \in {load_approaches(d) : d \in data}
    /\ neos_by_designation = <<>>
    /\ neos_by_name = <<>>
    /\ approaches = <<>>
    /\ phase = "loaded"
    /\ ret = NoCall
    /\ gen = NoGenerator
    /\ csv = NoFile

-----------------------------------------------------------------------------
(* The operations.                                                         *)

\* database = NEODatabase(neos, approaches)
Construct ==
    /\ phase = "loaded"
    /\ LET db == NEODatabase(neos, cas)
       IN  /\ neos' = db.neos
           /\ cas' = db.cas
           /\ neos_by_designation' = db.neos_by_designation
           /\ neos_by_name' = db.neos_by_name
           /\ approaches' = db.approaches
    /\ phase' = "built"
    /\ UNCHANGED <<ret, gen, csv>>

GetNeoByDesignation(Args) ==
    /\ phase = "built"
    /\ \E d \in Args :
         ret' = [op |-> "get_neo_by_designation", arg |-> PyStr(d),
                 val |-> get_neo_by_designation(neos_by_designation, d)]
    /\ UNCHANGED <<dbvars, phase, gen, csv>>

\* A variant of GetNeoByName whose miss leaves an entry behind
\* (setdefault(name, None) instead of a membership test).
GetNeoByNameSetdefault(Args) ==
    /\ phase = "built"
    /\ \E name \in Args :
         /\ ret' = [op |-> "get_neo_by_name", arg |-> name,
                    val |-> get_neo_by_name(neos_by_name, name)]
         /\ neos_by_name' = IF DictHas(neos_by_name, name) THEN neos_by_name
                            ELSE DictSet(neos_by_name, name, NoNeo)
    /\ UNCHANGED <<neos, cas, neos_by_designation, approaches, phase, gen, csv>>

GetNeoByName(Args) ==
    /\ phase = "built"
    /\ \E name \in Args :
         ret' = [op |-> "get_neo_by_name", arg |-> name,
                 val |-> get_neo_by_name(neos_by_name, name)]
    /\ UNCHANGED <<dbvars, phase, gen, csv>>

\* g = database.query(filters), once the generator before it is finished
\* or closed: one generator is followed at a time.
QueryStart(Filters) ==
    /\ phase = "built"
    /\ gen.state # "suspended"
    /\ \E f \in Filters : gen' = query(f)
    /\ UNCHANGED <<dbvars, phase, ret, csv>>

\* next(g)
QueryNext ==
    /\ phase = "built"
    /\ gen.state = "suspended"
    /\ gen' = Resume(gen, neos, cas, approaches, gen.pos + 1)
    /\ UNCHANGED <<dbvars, phase, ret, csv>>

\* g.close(): the iteration is abandoned
QueryClose ==
    /\ phase = "built"
    /\ gen.state = "suspended"
    /\ gen' = [gen EXCEPT !.state = "closed"]
    /\ UNCHANGED <<dbvars, phase, ret, csv>>

\* write_to_csv(g, filename)
WriteToCsv ==
    /\ phase = "built"
    /\ gen.state = "suspended"
    /\ LET w == write_to_csv(gen, neos, cas, approaches)
       IN  csv' = w.file /\ gen' = w.gen
    /\ UNCHANGED <<dbvars, phase, ret>>

-----------------------------------------------------------------------------
(* Specifications.                                                         *)

Designations == {"a", "b"}

\* Construction and the two lookups; names and designations vary.
Init ==
    InitWith(SeqsUpTo(NeoRows(Designations, {"", "x", "y"}, {""}, {"N"}), MaxNeos),
             SeqsUpTo(CadEntries(Designations \cup {"c"}, {1}, {1}, {1}), MaxApproaches))

NameArgs == {PyNone, PyStr(""), PyStr("x"), PyStr("y")}

Next ==
    \/ Construct
    \/ GetNeoByDesignation(Designations \cup {"c"})
    \/ GetNeoByName(NameArgs)

Spec == Init /\ [][Next]_vars

\* Construction and the scan of all approaches; designations vary.
InitScan ==
    InitWith(SeqsUpTo(NeoRows(Designations, {""}, {""}, {"N", "Y"}), MaxNeos),
             SeqsUpTo(CadEntries(Designations \cup {"c"}, {1}, {1, 2}, {1}), MaxApproaches))

ScanFilters == {<<>>, <<[k |-> "distance_max", v |-> 1]>>}

NextScan ==
    \/ Construct
    \/ QueryStart(ScanFilters)
    \/ QueryNext
    \/ QueryClose

SpecScan == InitScan /\ [][NextScan]_vars

\* Queries under every collection of filters; the measures vary.
InitQuery ==
    InitWith(SeqsUpTo(NeoRows({"a"}, {""}, {"", "1", "2"}, {"N", "Y"}), 1),
             SeqsUpTo(CadEntries(Designations, {1, 2}, {1, 2}, {1})
                         \cup CadEntries(Designations, {1}, {1}, {2}),
                      MaxQueryApproaches))

NextQuery ==
    \/ Construct
    \/ QueryStart(FilterDicts(MaxFilters))
    \/ QueryNext

SpecQuery == InitQuery /\ [][NextQuery]_vars

\* Every reading operation, interleaved.
InitRead ==
    InitWith(SeqsUpTo(NeoRows({"a"}, {"", "x"}, {"", "1"}, {"N", "Y"}), 1),
             SeqsUpTo(CadEntries(Designations, {1}, {1, 2}, {1}), MaxQueryApproaches))

ReadFilters ==
    {<<>>, <<[k |-> "distance_max", v |-> 1]>>, <<[k |-> "hazardous", v |-> 1]>>}

NextRead ==
    \/ Construct
    \/ GetNeoByDesignation({"a", "c"})
    \/ GetNeoByName({PyNone, PyStr("x")})
    \/ QueryStart(ReadFilters)
    \/ QueryNext
    \/ QueryClose
    \/ WriteToCsv

SpecRead == InitRead /\ [][NextRead]_vars

-----------------------------------------------------------------------------
(* Properties.                                                             *)

Indices(seq) == [i \in 1..Len(seq) |-> i]

InSeq(x, seq) == \E i \in 1..Len(seq) : seq[i] = x

\* the approaches of designation des, in the order of the input
Matching(des) == SelectSeq(Indices(cas), LAMBDA i : cas[i].designation = des)

Known(des) == \E n \in 1..Len(neos) : neos[n].designation = des

\* the last NEO of the input with designation des
IsLastWith(n, des) ==
    /\ neos[n].designation = des
    /\ \A m \in 1..Len(neos) : m > n => neos[m].designation # des

Shadowed(n) ==
    \E m \in 1..Len(neos) : m > n /\ neos[m].designation = neos[n].designation

\* C1: after construction an approach has a NEO exactly when some NEO of the
\* input has its designation; an approach of an unknown designation keeps
\* neo = None and is in no NEO's list of approaches.
C1_LinkedIffDesignationKnown ==
    phase = "built" =>
        \A i \in 1..Len(cas) :
            /\ (cas[i].neo # NoNeo) <=> Known(cas[i].designation)
            /\ ~Known(cas[i].designation) =>
                   /\ cas[i].neo = NoNeo
                   /\ \A n \in 1..Len(neos) : ~InSeq(i, neos[n].approaches)

C1_Witness ==
    /\ phase = "built"
    /\ \E i, j \in 1..Len(cas) : cas[i].neo # NoNeo /\ ~Known(cas[j].designation)

\* C2, as claimed: after construction every NEO of the input, one that shares
\* its designation with another included, has as its approaches exactly the
\* approaches of its designation, in input order.
C2_EveryNeoHasItsApproaches ==
    phase = "built" =>
        \A n \in 1..Len(neos) : neos[n].approaches = Matching(neos[n].designation)

\* C2, amended: after construction every NEO that is the last of the input
\* with its designation has as its approaches exactly the approaches of its
\* designation, in input order; a NEO followed by another of the same
\* designation keeps an empty list.
C2_LastNeoHasItsApproaches ==
    phase = "built" =>
        \A n \in 1..Len(neos) :
            IF Shadowed(n) THEN neos[n].approaches = <<>>
            ELSE neos[n].approaches = Matching(neos[n].designation)

C2_Witness ==
    /\ phase = "built"
    /\ \E n, m \in 1..Len(neos) :
         /\ n < m
         /\ neos[n].designation = neos[m].designation
         /\ Len(neos[m].approaches) >= 2
         /\ Len(Matching(neos[m].designation)) < Len(cas)

\* C3: get_neo_by_name returns None whenever its argument is None or '',
\* also in a database that holds NEOs without a name.
C3_NoNeoUnderNoName ==
    (ret.op = "get_neo_by_name" /\ PyIn(ret.arg, <<PyNone, PyStr("")>>))
        => ret.val = NoNeo

\* C10: get_neo_by_designation(d) returns the last NEO of the input with
\* designation d, None if there is none; the NEO of a linked approach is the
\* NEO that lookup returns for the approach's designation, and the approach
\* is one of that NEO's approaches.
C10_IndexAndLinksAgree ==
    /\ ret.op = "get_neo_by_designation" =>
          IF Known(ret.arg.s) THEN IsLastWith(ret.val, ret.arg.s)
          ELSE ret.val = NoNeo
    /\ phase = "built" =>
          \A i \in 1..Len(cas) :
              cas[i].neo # NoNeo =>
                  /\ cas[i].neo = get_neo_by_designation(neos_by_designation,
                                                         cas[i].designation)
                  /\ IsLastWith(cas[i].neo, cas[i].designation)
                  /\ InSeq(i, neos[cas[i].neo].approaches)

C10_Witness ==
    /\ ret.op = "get_neo_by_designation"
    /\ ret.val # NoNeo
    /\ Shadowed(1)
    /\ ret.arg.s = neos[1].designation
    /\ \E i \in 1..Len(cas) : cas[i].neo = ret.val

-----------------------------------------------------------------------------
(* Properties of query.                                                    *)

Finished(g) == g.state \in {"done", "raised"}

\* the position in the input of the first approach with the designation of
\* approach i
FirstSeen(i) ==
    CHOOSE j \in 1..i :
        /\ cas[j].designation = cas[i].designation
        /\ \A k \in 1..(j - 1) : cas[k].designation # cas[i].designation

\* C5: query with no filters yields every approach of the input exactly once,
\* linked or not, group after group in the order the designations were first
\* seen in the input, and in input order within a group; it does not raise.
C5_NoFiltersYieldsAllGrouped ==
    (phase = "built" /\ gen.state # "none" /\ gen.filters = <<>>) =>
        /\ gen.state # "raised"
        /\ \A p, q \in 1..Len(gen.out) :
              p < q =>
                  \/ FirstSeen(gen.out[p]) < FirstSeen(gen.out[q])
                  \/ /\ FirstSeen(gen.out[p]) = FirstSeen(gen.out[q])
                     /\ gen.out[p] < gen.out[q]
        /\ gen.state = "done" =>
              \A i \in 1..Len(cas) :
                  Cardinality({p \in 1..Len(gen.out) : gen.out[p] = i}) = 1

C5_Witness ==
    /\ gen.state = "done"
    /\ gen.filters = <<>>
    /\ gen.out # Indices(cas)
    /\ \E i \in 1..Len(cas) : cas[i].neo = NoNeo
    /\ \E i \in 1..Len(cas) : cas[i].neo # NoNeo

\* The condition under which a filter rejects an approach, as the table of
\* filters states it; an approach without a NEO counts as rejected by the
\* diameter and hazardous filters, the reading most favourable to the code.
Rejects(k, v, a) ==
    CASE k = "date" -> a.time.date # v
      [] k = "start_date" -> a.time.date < v
      [] k = "end_date" -> a.time.date > v
      [] k = "distance_min" -> a.distance < v
      [] k = "distance_max" -> a.distance > v
      [] k = "velocity_min" -> a.velocity < v
      [] k = "velocity_max" -> a.velocity > v
      [] k = "diameter_min" ->
            a.neo = NoNeo \/ isnan(neos[a.neo].diameter) \/ neos[a.neo].diameter.n < v
      [] k = "diameter_max" ->
            a.neo = NoNeo \/ isnan(neos[a.neo].diameter) \/ neos[a.neo].diameter.n > v
      [] k = "hazardous" -> a.neo = NoNeo \/ neos[a.neo].hazardous # (v = 1)
      [] OTHER -> FALSE

Satisfies(filters, a) == \A j \in 1..Len(filters) : ~Rejects(filters[j].k, filters[j].v, a)

\* C4: query emits an approach exactly when it satisfies every filter of the
\* collection: for each stored approach, it is among those yielded iff no
\* filter's reject condition holds; names query does not know never reject.
C4_EmitsExactlyTheMatches ==
    (phase = "built" /\ Finished(gen)) =>
        \A i \in 1..Len(cas) : InSeq(i, gen.out) <=> Satisfies(gen.filters, cas[i])

Reorderings(f) ==
    {g \in [1..Len(f) -> {f[j] : j \in 1..Len(f)}] :
        \A i, j \in 1..Len(f) : i # j => g[i] # g[j]}

\* C6: the outcome of query does not depend on the order of the filters: the
\* same items in another order yield the same approaches and the same
\* error or no error.
C6_FilterOrderIsIrrelevant ==
    (phase = "built" /\ Finished(gen)) =>
        \A f \in Reorderings(gen.filters) :
            LET other == Drain(query(f), neos, cas, approaches)
            IN  other.out = gen.out /\ other.state = gen.state

\* C7: query({hazardous: True}) yields only approaches of hazardous NEOs,
\* query({hazardous: False}) only approaches of NEOs that are not, no approach
\* is in both, and every approach that has a NEO is yielded exactly once by
\* exactly one of the two.
C7_HazardousPartition ==
    (phase = "built" /\ Finished(gen) /\ Len(gen.filters) = 1
       /\ gen.filters[1].k = "hazardous") =>
        LET v == gen.filters[1].v
            other == Drain(query(<<[k |-> "hazardous", v |-> 1 - v]>>),
                           neos, cas, approaches)
        IN  /\ \A p \in 1..Len(gen.out) :
                  /\ cas[gen.out[p]].neo # NoNeo
                  /\ neos[cas[gen.out[p]].neo].hazardous = (v = 1)
            /\ \A p \in 1..Len(other.out) :
                  /\ cas[other.out[p]].neo # NoNeo
                  /\ neos[cas[other.out[p]].neo].hazardous = (v = 0)
            /\ \A i \in 1..Len(cas) :
                  cas[i].neo # NoNeo =>
                      Cardinality({p \in 1..Len(gen.out) : gen.out[p] = i})
                      + Cardinality({p \in 1..Len(other.out) : other.out[p] = i}) = 1
            /\ \A i \in 1..Len(cas) : ~(InSeq(i, gen.out) /\ InSeq(i, other.out))

-----------------------------------------------------------------------------
(* Properties of the reading operations and of write_to_csv.               *)

\* C8: once the database is built, a step of get_neo_by_designation,
\* get_neo_by_name, query (run to the end or abandoned) or write_to_csv leaves
\* both indices, the groups, every NEO's approaches and every approach's neo
\* as they were, and a generator that has finished has yielded what its
\* filters yield on the database as built, whatever ran before it.
C8_ReadOnlyAfterConstruction ==
    [][phase = "built" =>
          /\ UNCHANGED dbvars
          /\ LET built == NEODatabase(
                     [n \in 1..Len(neos) |-> [neos[n] EXCEPT !.approaches = <<>>]],
                     [i \in 1..Len(cas) |-> [cas[i] EXCEPT !.neo = NoNeo]])
             IN  Finished(gen') =>
                     gen' = Drain(query(gen'.filters), built.neos, built.cas,
                                  built.approaches)]_vars

C8_Witness ==
    /\ phase = "built"
    /\ csv.state = "written"
    /\ Len(csv.rows) > 1
    /\ ret.op = "get_neo_by_name"
    /\ gen.state = "closed"
    /\ gen.pos >= 1
    /\ Len(cas) > gen.pos

\* C9: after the header row, write_to_csv writes one row per approach; in it
\* a missing name is the empty string, a diameter that is not a number is the
\* empty string and never the text nan, and hazardous is a boolean, False for
\* a NEO that is not hazardous.
C9_CsvRendering ==
    csv.state # "none" =>
        /\ csv.rows[1] = fieldnames
        /\ \A r \in 2..Len(csv.rows) :
              LET a == cas[csv.src[r]]
                  n == neos[a.neo]
                  row == csv.rows[r]
              IN  /\ n.name = PyNone => row[5] = ""
                  /\ isnan(n.diameter) => row[6] = ""
                  /\ row[6] # "nan"
                  /\ row[7] = (IF n.hazardous THEN "True" ELSE "False")

====
